---- MODULE Spec2Model ----
(***************************************************************************)
(* A model of the gemini-chatbot repository: the document collection and   *)
(* prompt assembly of GeminiChat (src/src/chat.py), the source dispatch    *)
(* and text decoding of DocumentLoader (src/src/document_loader.py) and    *)
(* the document-loading loops and the script runs of the Streamlit         *)
(* application (src/app.py).                                               *)
(*                                                                         *)
(* A str is a sequence of Unicode code points (10 is "\n", 32 is " ",      *)
(* 61 is "=", 97 is "a"); bytes are a sequence of integers in 0..255.      *)
(* The literals of the source are written out code point by code point.    *)
(***************************************************************************)
EXTENDS Integers, Sequences, FiniteSets, TLC

VARIABLES
    chat,       \* chat[s]: st.session_state.chat of session s, "None" or
                \* "GeminiChat" ("unset": not in st.session_state yet)
    documents,  \* documents[s]: GeminiChat.documents of session s, an
                \* insertion-ordered dict as a sequence of <<filename, content>>
    messages,   \* messages[s]: st.session_state.messages of session s
    uploader,   \* uploader[s]: the files the file_uploader of session s
                \* holds, each with whether it has been read to its end
    run,        \* run[s]: where the script run of session s stands: the
                \* line it reaches next (at), the file the upload loop
                \* reaches next (pos) and the chat input it has read (query)
    preset_loaded, \* preset_loaded[s]: st.session_state holds preset_loaded
    other,      \* a generate call of an earlier session that reached the
                \* model: its collection, query and prompt, and the chat
                \* inputs its session had had
    lastGen,    \* lastGen[s]: the latest generate call of session s on its
                \* present collection (NoGen once the collection changes or
                \* the script run has gone on)
    written,    \* written[s][k]: content of the latest add_document of k
                \* since k was last removed or cleared (NoContent if none)
    order,      \* order[s]: the keys added and not removed or cleared
                \* since, each where its first such add_document put it
    last,       \* the most recent GeminiChat call or script run: what it
                \* was and the collection it found
    trip,       \* an add_document followed at once by remove_document of
                \* the same filename, with the snapshot before the add
    textIn,     \* the bytes given to DocumentLoader._load_text
    textOut,    \* what _load_text did with them (NotRun before the call)
    loadIn,     \* the arguments of DocumentLoader.load and the outside world
    loadOut,    \* what load did with them (NotRun before the call)
    mode,       \* which loop of app.py runs: "upload", "preset" or "none"
    listing,    \* what stands at DOCS_DIR in a run of load_preset_documents
    batch,      \* the files the loop iterates over
    pos,        \* index of the file the loop reaches next
    regAt,      \* regAt[i]: whether the name of file i was in
                \* get_document_list() when the loop reached it
    reports,    \* the st.success / st.error messages of the loop
    halted      \* "no", or the exception that has left the run: the
                \* OSError of DOCS_DIR.iterdir(), or out of the loop "load
                \* error" or "stopped"

chatVars ==
    <<chat, documents, messages, run, preset_loaded, other, uploader, lastGen,
      written, order, last, trip>>
textVars == <<textIn, textOut>>
loadVars == <<loadIn, loadOut>>
loopVars == <<mode, listing, batch, pos, regAt, reports, halted>>
appVars == <<run, preset_loaded, other>>

vars == <<chatVars, textVars, loadVars, loopVars>>

----------------------------------------------------------------------------
(* Bounds and input sets *)

MaxTurns == 2
MaxLen == 3
MaxBatch == 3

Sessions == {1}

\* Filenames "a", "b.md", "c"; contents "x", "y\nz"; queries "q", "w?".
Keys == {<<97>>, <<98, 46, 109, 100>>, <<99>>}
Contents == {<<120>>, <<121, 10, 122>>}
Queries == {<<113>>, <<119, 63>>}

\* What the external model does with one prompt: generate_content returns a
\* response whose text is read ("r"), generate_content raises an Exception,
\* reading response.text raises one (str(e) is "429" in both), or the call
\* is left by a BaseException that is no Exception (KeyboardInterrupt).
ModelOutcomes ==
    { [kind |-> "text", text |-> <<114>>],
      [kind |-> "call_raises", text |-> <<52, 50, 57>>],
      [kind |-> "text_raises", text |-> <<52, 50, 57>>],
      [kind |-> "call_interrupted", text |-> <<>>] }

\* No str: a code point is never negative.
NoContent == <<-1>>
NoQuery == <<-1>>
NoOutcome == [kind |-> "none", text |-> <<>>]
NoGen == [called |-> FALSE, query |-> <<>>, prompt |-> <<>>, answer |-> <<>>,
          raised |-> FALSE, outcome |-> NoOutcome]
NoTrip == [phase |-> "none"]
NoCall ==
    [called |-> FALSE, docs |-> <<>>, query |-> <<>>, prompt |-> <<>>,
     turns |-> 0]
Idle == [at |-> "idle", pos |-> 0, query |-> NoQuery]

----------------------------------------------------------------------------
(* Sequence helpers *)

RECURSIVE Flatten(_)
Flatten(ss) == IF ss = <<>> THEN <<>> ELSE Head(ss) \o Flatten(Tail(ss))

RECURSIVE Join(_, _)
\* sep.join(parts)
Join(sep, parts) ==
    IF parts = <<>> THEN <<>>
    ELSE IF Len(parts) = 1 THEN parts[1]
    ELSE parts[1] \o sep \o Join(sep, Tail(parts))

SelectIdx(s, i) == [j \in 1..(Len(s) - 1) |-> IF j < i THEN s[j] ELSE s[j + 1]]

----------------------------------------------------------------------------
(* GeminiChat: the document collection *)

DictKeys(docs) == [i \in 1..Len(docs) |-> docs[i][1]]
KeySet(docs) == {docs[i][1] : i \in 1..Len(docs)}
IndexOf(docs, k) == CHOOSE i \in 1..Len(docs) : docs[i][1] = k
DictGet(docs, k) == docs[IndexOf(docs, k)][2]

\* An assignment that appends even when the key is present.
DictSet_append(docs, k, c) == Append(docs, <<k, c>>)

\* self.documents[filename] = content: an existing key keeps its place
DictSet(docs, k, c) ==
    IF k \in KeySet(docs)
    THEN [docs EXCEPT ![IndexOf(docs, k)] = <<k, c>>]
    ELSE Append(docs, <<k, c>>)

\* del self.documents[filename]: KeyError when the key is absent
DictDel(docs, k) ==
    IF k \in KeySet(docs)
    THEN [docs |-> SelectIdx(docs, IndexOf(docs, k)), raised |-> "no"]
    ELSE [docs |-> docs, raised |-> "KeyError"]

add_document(docs, filename, content) == DictSet(docs, filename, content)

\* remove_document without the membership test.
remove_document_unguarded(docs, filename) == DictDel(docs, filename)

\* remove_document that deletes nothing.
remove_document_keeps(docs, filename) == [docs |-> docs, raised |-> "no"]

remove_document(docs, filename) ==
    IF filename \in KeySet(docs)
    THEN DictDel(docs, filename)
    ELSE [docs |-> docs, raised |-> "no"]

clear_documents(docs) == <<>>

get_document_list(docs) == DictKeys(docs)

----------------------------------------------------------------------------
(* GeminiChat.generate *)

\* The literal returned for an empty collection (chat.py line 55).
Guidance ==
    << 12489, 12461, 12517, 12513, 12531, 12488, 12364, 12450, 12483, 12503,
       12525, 12540, 12489, 12373, 12428, 12390, 12356, 12414, 12379, 12435,
       12290, 12469, 12452, 12489, 12496, 12540, 12363, 12425, 12501, 12449,
       12452, 12523, 12434, 12450, 12483, 12503, 12525, 12540, 12489, 12375,
       12390, 12367, 12384, 12373, 12356, 12290 >>

\* The prompt literal up to {context}: the persona, the rules and the
\* "## ..." heading of the documents, ending with "\n".
PromptHead ==
    << 12354, 12394, 12383, 12399, 35242, 20999, 12391, 30693, 35672, 35914,
       23500, 12394, 12450, 12471, 12473, 12479, 12531, 12488, 12391, 12377,
       12290, 10, 20197, 19979, 12398, 12489, 12461, 12517, 12513, 12531,
       12488, 12398, 20869, 23481, 12434, 21442, 32771, 12395, 12289, 12518,
       12540, 12470, 12540, 12398, 36074, 21839, 12395, 26085, 26412, 35486,
       12391, 22238, 31572, 12375, 12390, 12367, 12384, 12373, 12356, 12290,
       10, 10, 35, 35, 32, 12523, 12540, 12523, 10, 45,
       32, 12489, 12461, 12517, 12513, 12531, 12488, 12398, 20869, 23481,
       12395, 22522, 12389, 12356, 12390, 27491, 30906, 12395, 22238, 31572,
       12375, 12390, 12367, 12384, 12373, 12356, 10, 45, 32, 12489,
       12461, 12517, 12513, 12531, 12488, 12395, 24773, 22577, 12364, 12394,
       12356, 22580, 21512, 12399, 12289, 12381, 12398, 26088, 12434, 20253,
       12360, 12390, 12367, 12384, 12373, 12356, 10, 45, 32, 22238,
       31572, 12399, 20998, 12363, 12426, 12420, 12377, 12367, 12289, 31777,
       28500, 12395, 12375, 12390, 12367, 12384, 12373, 12356, 10, 45,
       32, 24517, 35201, 12395, 24540, 12376, 12390, 31623, 26465, 26360,
       12365, 12420, 35211, 20986, 12375, 12434, 20351, 12387, 12390, 12367,
       12384, 12373, 12356, 10, 10, 35, 35, 32, 12489, 12461,
       12517, 12513, 12531, 12488, 10 >>

\* "\n\n## ...\n": the literal between {context} and {query}.
QuestionHeading ==
    << 10, 10, 35, 35, 32, 12518, 12540, 12470, 12540, 12398,
       36074, 21839, 10 >>

\* "\n\n## ...": the literal after {query}.
AnswerHeading ==
    << 10, 10, 35, 35, 32, 22238, 31572 >>

\* The literal in front of {str(e)} (chat.py line 86), ending with ": ".
ErrorPrefix ==
    << 12456, 12521, 12540, 12364, 30330, 29983, 12375, 12414, 12375, 12383,
       58, 32 >>

\* f"=== {filename} ===\n{content}"
Section(filename, content) ==
    <<61, 61, 61, 32>> \o filename \o <<32, 61, 61, 61, 10>> \o content

\* context_parts built from the last document to the first.
context_parts_reversed(docs) ==
    [i \in 1..Len(docs) |->
        Section(docs[Len(docs) + 1 - i][1], docs[Len(docs) + 1 - i][2])]

\* context_parts, in the order of self.documents.items()
context_parts(docs) == [i \in 1..Len(docs) |-> Section(docs[i][1], docs[i][2])]

\* "\n\n".join(context_parts)
context(docs) == Join(<<10, 10>>, context_parts(docs))

BuildPrompt(docs, query) ==
    PromptHead \o context(docs) \o QuestionHeading \o query \o AnswerHeading

\* The try block with generate_content and response.text left to raise.
CallModel_nocatch(outcome) ==
    IF outcome.kind = "text"
    THEN [raised |-> FALSE, answer |-> outcome.text]
    ELSE [raised |-> TRUE, answer |-> <<>>]

\* The try block: generate_content(prompt), then response.text; any
\* Exception becomes the error answer, any other BaseException passes.
CallModel(outcome) ==
    IF outcome.kind = "text"
    THEN [raised |-> FALSE, answer |-> outcome.text]
    ELSE IF outcome.kind \in {"call_raises", "text_raises"}
    THEN [raised |-> FALSE, answer |-> ErrorPrefix \o outcome.text]
    ELSE [raised |-> TRUE, answer |-> <<>>]

\* generate without the empty-collection return.
generate_always_calls(docs, query, outcome) ==
    LET r == CallModel(outcome)
    IN  [called |-> TRUE, query |-> query,
         prompt |-> BuildPrompt(docs, query),
         answer |-> r.answer, raised |-> r.raised, outcome |-> outcome]

\* generate with the transcript of the session (st.session_state.messages)
\* put in front of the query, as a chat kept with the model would send it.
generate_with_history(docs, query, outcome) ==
    IF docs = <<>>
    THEN [called |-> FALSE, query |-> query, prompt |-> <<>>,
          answer |-> Guidance, raised |-> FALSE, outcome |-> NoOutcome]
    ELSE LET r == CallModel(outcome)
         IN  [called |-> TRUE, query |-> query,
              prompt |-> BuildPrompt(docs,
                            Flatten([i \in 1..Len(messages[1]) |->
                                        messages[1][i].content]) \o query),
              answer |-> r.answer, raised |-> r.raised, outcome |-> outcome]

\* generate(query) on the collection docs (self.documents), the external
\* model behaving as outcome.  called: whether generate_content was invoked;
\* prompt: what it was given.
generate(docs, query, outcome) ==
    IF docs = <<>>
    THEN [called |-> FALSE, query |-> query, prompt |-> <<>>,
          answer |-> Guidance, raised |-> FALSE, outcome |-> NoOutcome]
    ELSE LET r == CallModel(outcome)
         IN  [called |-> TRUE, query |-> query,
              prompt |-> BuildPrompt(docs, query),
              answer |-> r.answer, raised |-> r.raised, outcome |-> outcome]

----------------------------------------------------------------------------
(* DocumentLoader: text decoding *)

\* The byte values the model draws data from: 0x40 "@", 0x60 "`", 0x81,
\* 0x82, 0x87 (lead bytes of cp932; 0x81 and 0x82 of shift_jis too), 0xA0,
\* 0xA9 (UTF-8 continuation bytes; 0xA9 a half-width katakana), 0xC3 (a
\* UTF-8 lead byte and a half-width katakana).
ByteAlphabet == {64, 96, 129, 130, 135, 160, 169, 195}

ByteSeqs == UNION {[1..n -> ByteAlphabet] : n \in 0..MaxLen}

NotRun == [raised |-> "not run", text |-> <<>>]
Returned(text) == [raised |-> "no", text |-> text]
Raised(e) == [raised |-> e, text |-> <<>>]

SetMin(S) == CHOOSE x \in S : \A y \in S : x <= y

\* UTF-8: the length of the sequence a lead byte opens and the range its
\* second byte must lie in (n = 0: not a lead byte).
Utf8Lead(b) ==
    IF b >= 194 /\ b <= 223 THEN [n |-> 2, lo |-> 128, hi |-> 191]
    ELSE IF b = 224 THEN [n |-> 3, lo |-> 160, hi |-> 191]
    ELSE IF (b >= 225 /\ b <= 236) \/ (b >= 238 /\ b <= 239)
         THEN [n |-> 3, lo |-> 128, hi |-> 191]
    ELSE IF b = 237 THEN [n |-> 3, lo |-> 128, hi |-> 159]
    ELSE IF b = 240 THEN [n |-> 4, lo |-> 144, hi |-> 191]
    ELSE IF b >= 241 /\ b <= 243 THEN [n |-> 4, lo |-> 128, hi |-> 191]
    ELSE IF b = 244 THEN [n |-> 4, lo |-> 128, hi |-> 143]
    ELSE [n |-> 0, lo |-> 0, hi |-> 0]

\* The UTF-8 sequence at data[i]: its code point and length, or the number
\* of bytes that are in error there.
Utf8At(data, i) ==
    LET b == data[i]
        lead == Utf8Lead(b)
        Good(k) ==
            /\ i + k <= Len(data)
            /\ IF k = 1
               THEN data[i + 1] >= lead.lo /\ data[i + 1] <= lead.hi
               ELSE data[i + k] >= 128 /\ data[i + k] <= 191
        bad == {k \in 1..(lead.n - 1) : ~Good(k)}
        Low(k) == data[i + k] % 64
    IN  IF b < 128 THEN [ok |-> TRUE, cp |-> b, n |-> 1]
        ELSE IF lead.n = 0 THEN [ok |-> FALSE, cp |-> 0, n |-> 1]
        ELSE IF bad # {} THEN [ok |-> FALSE, cp |-> 0, n |-> SetMin(bad)]
        ELSE IF lead.n = 2
             THEN [ok |-> TRUE, cp |-> (b % 32) * 64 + Low(1), n |-> 2]
        ELSE IF lead.n = 3
             THEN [ok |-> TRUE,
                   cp |-> (b % 16) * 4096 + Low(1) * 64 + Low(2), n |-> 3]
        ELSE [ok |-> TRUE,
              cp |-> (b % 8) * 262144 + Low(1) * 4096 + Low(2) * 64 + Low(3),
              n |-> 4]

RECURSIVE Utf8From(_, _, _)
\* data[i..] decoded as UTF-8; errors is "strict" or "ignore"
Utf8From(data, i, errors) ==
    IF i > Len(data) THEN [ok |-> TRUE, text |-> <<>>]
    ELSE LET u == Utf8At(data, i)
             rest == Utf8From(data, i + u.n, errors)
         IN  IF u.ok
             THEN [ok |-> rest.ok, text |-> <<u.cp>> \o rest.text]
             ELSE IF errors = "ignore" THEN rest
             ELSE [ok |-> FALSE, text |-> <<>>]

\* cp932, one byte: ASCII and 0x80, 0xA0, the half-width katakana
\* 0xA1..0xDF, and 0xFD..0xFF (-1: not a one-byte character)
Cp932Single(b) ==
    IF b <= 128 THEN b
    ELSE IF b = 160 THEN 63728
    ELSE IF b >= 161 /\ b <= 223 THEN 65377 + (b - 161)
    ELSE IF b >= 253 THEN 63729 + (b - 253)
    ELSE -1

\* cp932, two bytes: the codec's table on the pairs over ByteAlphabet
Cp932Double ==
    <<129, 64>> :> 12288 @@ <<129, 96>> :> 65374 @@ <<129, 129>> :> 65309 @@
    <<129, 130>> :> 8800 @@ <<129, 135>> :> 8734 @@ <<129, 160>> :> 9633 @@
    <<129, 169>> :> 8592 @@ <<130, 96>> :> 65313 @@ <<130, 129>> :> 65345 @@
    <<130, 130>> :> 65346 @@ <<130, 135>> :> 65351 @@ <<130, 160>> :> 12354 @@
    <<130, 169>> :> 12363 @@ <<130, 195>> :> 12389 @@ <<135, 64>> :> 9312 @@
    <<135, 96>> :> 13076 @@ <<135, 129>> :> 12319 @@ <<135, 130>> :> 8470 @@
    <<135, 135>> :> 12966

\* shift_jis, one byte: ASCII and the half-width katakana 0xA1..0xDF
ShiftJisSingle(b) ==
    IF b <= 127 THEN b
    ELSE IF b >= 161 /\ b <= 223 THEN 65377 + (b - 161)
    ELSE -1

\* shift_jis, two bytes: the codec's table on the pairs over ByteAlphabet
ShiftJisDouble ==
    <<129, 64>> :> 12288 @@ <<129, 96>> :> 12316 @@ <<129, 129>> :> 65309 @@
    <<129, 130>> :> 8800 @@ <<129, 135>> :> 8734 @@ <<129, 160>> :> 9633 @@
    <<129, 169>> :> 8592 @@ <<130, 96>> :> 65313 @@ <<130, 129>> :> 65345 @@
    <<130, 130>> :> 65346 @@ <<130, 135>> :> 65351 @@ <<130, 160>> :> 12354 @@
    <<130, 169>> :> 12363 @@ <<130, 195>> :> 12389

SingleByte(encoding, b) ==
    IF encoding = "cp932" THEN Cp932Single(b) ELSE ShiftJisSingle(b)
DoubleByte(encoding) ==
    IF encoding = "cp932" THEN Cp932Double ELSE ShiftJisDouble

RECURSIVE DoubleByteFrom(_, _, _)
\* data[i..] decoded strictly as cp932 or shift_jis
DoubleByteFrom(data, i, encoding) ==
    IF i > Len(data) THEN [ok |-> TRUE, text |-> <<>>]
    ELSE IF SingleByte(encoding, data[i]) >= 0
    THEN LET rest == DoubleByteFrom(data, i + 1, encoding)
         IN  [ok |-> rest.ok,
              text |-> <<SingleByte(encoding, data[i])>> \o rest.text]
    ELSE IF i + 1 <= Len(data)
            /\ <<data[i], data[i + 1]>> \in DOMAIN DoubleByte(encoding)
    THEN LET rest == DoubleByteFrom(data, i + 2, encoding)
         IN  [ok |-> rest.ok,
              text |-> <<DoubleByte(encoding)[<<data[i], data[i + 1]>>]>>
                           \o rest.text]
    ELSE [ok |-> FALSE, text |-> <<>>]

\* data.decode(encoding, errors=errors): ok is FALSE for UnicodeDecodeError
Decode(data, encoding, errors) ==
    IF encoding = "utf-8" THEN Utf8From(data, 1, errors)
    ELSE DoubleByteFrom(data, 1, encoding)

\* The encodings of the loop of _load_text, in its order.
Encodings == <<"utf-8", "cp932", "shift_jis">>

RECURSIVE TryEncodings(_, _)
\* the for loop of _load_text over encs, then the decode that ignores errors
TryEncodings(data, encs) ==
    IF encs = <<>> THEN Returned(Decode(data, "utf-8", "ignore").text)
    ELSE LET r == Decode(data, Head(encs), "strict")
         IN  IF r.ok THEN Returned(r.text)
             ELSE TryEncodings(data, Tail(encs))

\* _load_text trying cp932 before utf-8.
_load_text_cp932_first(data) ==
    TryEncodings(data, <<"cp932", "utf-8", "shift_jis">>)

_load_text(data) == TryEncodings(data, Encodings)

----------------------------------------------------------------------------
(* DocumentLoader: dispatch on the source *)

StartsWith(s, prefix) ==
    Len(s) >= Len(prefix) /\ SubSeq(s, 1, Len(prefix)) = prefix

\* the largest i with s[i] = c, 0 if there is none: s.rfind(c) + 1
RFind(s, c) ==
    LET at == {i \in 1..Len(s) : s[i] = c}
    IN  IF at = {} THEN 0 ELSE CHOOSE i \in at : \A j \in at : j <= i

\* str.lower() on ASCII
Lower(s) == [i \in 1..Len(s) |-> IF s[i] >= 65 /\ s[i] <= 90 THEN s[i] + 32 ELSE s[i]]

\* the code points str.strip() removes
Whitespace ==
    {9, 10, 11, 12, 13, 28, 29, 30, 31, 32, 133, 160, 5760, 8232, 8233,
     8239, 8287, 12288} \cup (8192..8202)

\* line.strip()
Strip(line) ==
    LET keep == {i \in 1..Len(line) : line[i] \notin Whitespace}
    IN  IF keep = {} THEN <<>>
        ELSE SubSeq(line, SetMin(keep),
                    CHOOSE i \in keep : \A j \in keep : j <= i)

RECURSIVE Split(_, _)
\* text.split(sep) for a one-character sep
Split(text, sep) ==
    LET at == {i \in 1..Len(text) : text[i] = sep}
    IN  IF at = {} THEN <<text>>
        ELSE <<SubSeq(text, 1, SetMin(at) - 1)>>
                 \o Split(SubSeq(text, SetMin(at) + 1, Len(text)), sep)

\* The components of Path(p) below its root: the pieces between "/",
\* without the empty ones and the "." ones, which pathlib drops
PathParts(p) ==
    SelectSeq(Split(p, 47), LAMBDA part : part # <<>> /\ part # <<46>>)

\* Path(p).name: the last component, "" when there is none
PathName(p) ==
    LET parts == PathParts(p)
    IN  IF parts = <<>> THEN <<>> ELSE parts[Len(parts)]

\* Path(p).suffix: from the last "." of the name, unless that "." is the
\* first or the last character of the name
Suffix(p) ==
    LET name == PathName(p)
        dot == RFind(name, 46)
    IN  IF dot > 1 /\ dot < Len(name) THEN SubSeq(name, dot, Len(name))
        ELSE <<>>

\* The outside world of one load call: what stands at the path given to
\* open() once its trailing "", "." and ".." pieces are taken off (a regular
\* file with its data; a directory; nothing, every directory on the way
\* being there; "blocked": nothing, a regular file standing where the path
\* goes on), what PdfReader and page.extract_text() make of the data, what
\* pandas makes of the text (read_csv, then to_markdown), and what
\* requests.get answers (text: what soup.get_text gives once the unwanted
\* tags are removed).
EnvGood ==
    [file |-> [kind |-> "file", data |-> <<130, 160>>],
     pdf |-> [kind |-> "pages", pages |-> << <<112>>, <<>>, <<113>> >>],
     csv |-> [kind |-> "table", text |-> <<124, 97, 124>>],
     web |-> [kind |-> "response", status |-> 200,
              text |-> <<32, 116, 32, 10, 9, 10, 117>>]]
EnvBad ==
    [file |-> [kind |-> "none", data |-> <<>>],
     pdf |-> [kind |-> "raises", pages |-> <<>>],
     csv |-> [kind |-> "raises", text |-> <<>>],
     web |-> [kind |-> "raises", status |-> 0, text |-> <<>>]]
EnvPartial ==
    [file |-> [kind |-> "file", data |-> <<64>>],
     pdf |-> [kind |-> "pages", pages |-> << <<>> >>],
     csv |-> [kind |-> "table", text |-> <<124, 98, 124>>],
     web |-> [kind |-> "response", status |-> 404, text |-> <<>>]]
EnvDir ==
    [file |-> [kind |-> "dir", data |-> <<>>],
     pdf |-> [kind |-> "pages", pages |-> << <<112>> >>],
     csv |-> [kind |-> "raises", text |-> <<>>],
     web |-> [kind |-> "response", status |-> 500, text |-> <<>>]]
EnvBlocked ==
    [file |-> [kind |-> "blocked", data |-> <<>>],
     pdf |-> [kind |-> "raises", pages |-> <<>>],
     csv |-> [kind |-> "table", text |-> <<124, 97, 124>>],
     web |-> [kind |-> "response", status |-> 200, text |-> <<>>]]
Envs == {EnvGood, EnvBad, EnvPartial, EnvDir, EnvBlocked}

\* "", "." and "..": the pieces of a path that name no entry of their own
DotPieces == {<<>>, <<46>>, <<46, 46>>}

\* open(path, "rb") and f.read(): the data of a regular file, or the OSError
\* of open.  The empty path names nothing; a path of dot pieces alone is
\* the root, the working directory or one above it; a regular file can
\* stand in the way only of a path that names an entry before its last
\* piece; a path that ends in a dot piece asks for a directory.
open_rb(path, env) ==
    LET pieces == Split(path, 47)
    IN  IF path = <<>> THEN Raised("FileNotFoundError")
        ELSE IF \A i \in 1..Len(pieces) : pieces[i] \in DotPieces
        THEN Raised("IsADirectoryError")
        ELSE IF /\ env.file.kind = "blocked"
                /\ \E i \in 1..(Len(pieces) - 1) : pieces[i] \notin DotPieces
        THEN Raised("NotADirectoryError")
        ELSE IF env.file.kind \in {"none", "blocked"}
        THEN Raised("FileNotFoundError")
        ELSE IF env.file.kind = "dir" THEN Raised("IsADirectoryError")
        ELSE IF pieces[Len(pieces)] \in DotPieces
        THEN Raised("NotADirectoryError")
        ELSE [raised |-> "no", text |-> env.file.data]

\* _load_pdf: the non-empty page texts joined by "\n"
_load_pdf(data, env) ==
    IF env.pdf.kind = "raises" THEN Raised("PdfReadError")
    ELSE Returned(Join(<<10>>, SelectSeq(env.pdf.pages, LAMBDA t : t # <<>>)))

\* pd.read_csv(StringIO(text)) and df.to_markdown on the decoded text
read_csv(text, env) ==
    IF text.raised # "no" THEN text
    ELSE IF env.csv.kind = "raises" THEN Raised("ParserError")
    ELSE Returned(env.csv.text)

\* _load_csv: _load_text, then pandas
_load_csv(data, env) == read_csv(_load_text(data), env)

\* _load_web: requests.get, raise_for_status, then the stripped non-empty
\* lines joined by "\n"
_load_web(url, env) ==
    IF env.web.kind = "raises" THEN Raised("RequestException")
    ELSE IF env.web.status >= 400 /\ env.web.status < 600
    THEN Raised("HTTPError")
    ELSE LET parts == Split(env.web.text, 10)
             lines == [i \in 1..Len(parts) |-> Strip(parts[i])]
         IN  Returned(Join(<<10>>, SelectSeq(lines, LAMBDA l : l # <<>>)))

\* _load_bytes: the loader of the extension, ValueError for any other
_load_bytes(data, ext, env) ==
    IF ext = <<46, 112, 100, 102>> THEN _load_pdf(data, env)            \* .pdf
    ELSE IF ext \in {<<46, 116, 120, 116>>, <<46, 109, 100>>}     \* .txt, .md
    THEN _load_text(data)
    ELSE IF ext = <<46, 99, 115, 118>> THEN _load_csv(data, env)        \* .csv
    ELSE Raised("ValueError: Unsupported file type")

\* _load_file: open(path, "rb"), then _load_bytes
_load_file(path, ext, env) ==
    IF open_rb(path, env).raised # "no" THEN open_rb(path, env)
    ELSE _load_bytes(env.file.data, ext, env)

HttpPrefix == <<104, 116, 116, 112, 58, 47, 47>>         \* "http://"
HttpsPrefix == <<104, 116, 116, 112, 115, 58, 47, 47>>   \* "https://"

IsUrl(source) ==
    /\ source.type = "str"
    /\ StartsWith(source.value, HttpPrefix) \/ StartsWith(source.value, HttpsPrefix)

\* DocumentLoader.load(source, filename); source.type is the Python type
load(source, filename, env) ==
    IF IsUrl(source) THEN _load_web(source.value, env)
    ELSE IF source.type = "bytes"
    THEN _load_bytes(source.value, Lower(Suffix(filename)), env)
    ELSE IF source.type = "str"
    THEN _load_file(source.value, Lower(Suffix(source.value)), env)
    ELSE Raised("ValueError: Unsupported source type")

Bytes(data) == [type |-> "bytes", value |-> data]
Str(text) == [type |-> "str", value |-> text]

----------------------------------------------------------------------------
(* app.py: the loops that load documents *)

\* "[preset] "
PresetPrefix == <<91, 112, 114, 101, 115, 101, 116, 93, 32>>

supported_extensions ==
    {<<46, 112, 100, 102>>, <<46, 116, 120, 116>>, <<46, 109, 100>>,
     <<46, 99, 115, 118>>}

\* What one iteration of a loop did: the collection it leaves, the document
\* it added, the st.success / st.error it showed, and whether the loop goes
\* on ("no") or was left by an exception ("load error": one of load;
\* "stopped": Streamlit's script control, raised inside a st call).
Kept(docs) == [docs |-> docs, added |-> <<>>, report |-> <<>>, escaped |-> "no"]

\* What follows the load of the upload loop, r being what load did
\* (app.py lines 95-98)
Uploaded(docs, f, r) ==
    IF r.raised = "no"
    THEN [docs |-> add_document(docs, f.name, r.text),
          added |-> <<f.name, r.text>>,
          report |-> <<[kind |-> "success", name |-> f.name, error |-> "no"]>>,
          escaped |-> "no"]
    ELSE [docs |-> docs, added |-> <<>>,
          report |-> <<[kind |-> "error", name |-> f.name, error |-> r.raised]>>,
          escaped |-> "no"]

\* The try of the upload loop (app.py lines 91-98)
TryUpload(docs, f) == Uploaded(docs, f, load(Bytes(f.data), f.name, f.env))

\* The upload loop's body with no except clause: a failing load leaves the
\* loop.
upload_file_noexcept(docs, f) ==
    IF f.name \in KeySet(docs) THEN Kept(docs)
    ELSE IF TryUpload(docs, f).added # <<>> THEN TryUpload(docs, f)
    ELSE [docs |-> docs, added |-> <<>>, report |-> <<>>,
          escaped |-> "load error"]

\* One iteration of the upload loop (app.py lines 89-98)
upload_file(docs, f) ==
    IF f.name \in KeySet(docs) THEN Kept(docs) ELSE TryUpload(docs, f)

\* The iteration of the upload loop in which Streamlit stops the script run
\* inside st.success (line 96, add_document done) or inside st.error (line
\* 98): nothing is shown and the script-control exception, which is no
\* Exception, leaves the loop.  A file whose name is registered reaches no
\* st call.
upload_file_stopped(docs, f) ==
    IF f.name \in KeySet(docs) THEN Kept(docs)
    ELSE [TryUpload(docs, f) EXCEPT !.report = <<>>, !.escaped = "stopped"]

\* What follows the load of load_preset_documents, r being what load did
\* (app.py lines 35-37)
PresetLoaded(docs, f, r) ==
    IF r.raised = "no"
    THEN [docs |-> add_document(docs, PresetPrefix \o f.name, r.text),
          added |-> <<PresetPrefix \o f.name, r.text>>,
          report |-> <<>>, escaped |-> "no"]
    ELSE Kept(docs)

\* DOCS_DIR, "/app/docs", and DOCS_DIR / name
DOCS_DIR == <<47, 97, 112, 112, 47, 100, 111, 99, 115>>
DocsPath(name) == DOCS_DIR \o <<47>> \o name

\* The try of load_preset_documents (app.py lines 32-37): open(file_path,
\* "rb") on what stands at the path (f.env.file), f.read(), then load on the
\* bytes read; whatever open or load raises is passed over.
TryPreset(docs, f, opened) ==
    IF opened.raised # "no" THEN Kept(docs)
    ELSE PresetLoaded(docs, f, load(Bytes(opened.text), f.name, f.env))

\* One iteration of load_preset_documents (app.py lines 29-37)
preset_file(docs, f) ==
    IF Lower(Suffix(f.name)) \notin supported_extensions THEN Kept(docs)
    ELSE IF f.name \in KeySet(docs) THEN Kept(docs)
    ELSE TryPreset(docs, f, open_rb(DocsPath(f.name), f.env))

RECURSIVE preset_files(_, _)
\* The loop of load_preset_documents (app.py lines 29-37) over the entries
\* DOCS_DIR.iterdir() yields
preset_files(docs, entries) ==
    IF entries = <<>> THEN docs
    ELSE preset_files(preset_file(docs, Head(entries)).docs, Tail(entries))

\* DOCS_DIR.iterdir() (app.py line 29, outside the try): the entries of a
\* directory, or the OSError of a docs that is a regular file or a
\* directory that may not be read
iterdir(dir) ==
    IF dir.kind = "file" THEN "NotADirectoryError"
    ELSE IF dir.kind = "unreadable" THEN "PermissionError"
    ELSE "no"

\* load_preset_documents (app.py lines 22-37), dir being what stands at
\* DOCS_DIR: nothing is done when nothing does (DOCS_DIR.exists() is
\* False); the error of iterdir() leaves the function, no entry reached.
load_preset_documents(docs, dir) ==
    IF dir.kind = "none" THEN [docs |-> docs, raised |-> "no"]
    ELSE IF iterdir(dir) # "no" THEN [docs |-> docs, raised |-> iterdir(dir)]
    ELSE [docs |-> preset_files(docs, dir.entries), raised |-> "no"]

\* "..."
Ellipsis == <<46, 46, 46>>

\* short_name of the URL handler (app.py line 114)
short_name(url_input) ==
    IF Len(url_input) > 50 THEN SubSeq(url_input, 1, 50) \o Ellipsis
    ELSE url_input

\* What follows the load of the URL handler, r being what load did (app.py
\* lines 114-118)
UrlLoaded(docs, url_input, r) ==
    IF r.raised = "no" THEN add_document(docs, short_name(url_input), r.text)
    ELSE docs

\* The URL handler (app.py lines 110-118): load is given the text of the
\* URL box as it is
url_button(docs, url_input, env) ==
    UrlLoaded(docs, url_input, load(Str(url_input), <<>>, env))

\* "your-api-key-here"
PlaceholderKey ==
    <<121, 111, 117, 114, 45, 97, 112, 105, 45, 107, 101, 121, 45, 104, 101,
      114, 101>>

\* app.py lines 56-58: load_preset_documents, then preset_loaded is set;
\* an error of load_preset_documents leaves init_session_state (and main)
\* with preset_loaded not set
PresetOnce(c, r) ==
    [chat |-> c, docs |-> r.docs, loaded |-> r.raised = "no", raised |-> r.raised]

\* init_session_state on a new session: a GeminiChat with the preset
\* documents when the secrets hold an API key, no GeminiChat otherwise
init_session_state(api_key, dir) ==
    IF api_key # <<>> /\ api_key # PlaceholderKey
    THEN PresetOnce("GeminiChat", load_preset_documents(<<>>, dir))
    ELSE [chat |-> "None", docs |-> <<>>, loaded |-> FALSE, raised |-> "no"]

\* init_session_state in any script run of a session (app.py lines 40-58),
\* c being st.session_state.chat ("unset": not in st.session_state) and
\* loaded whether st.session_state holds preset_loaded: the preset documents
\* are loaded once, in the first script run that finds a GeminiChat
init_session_state_of(c, docs, loaded, api_key, dir) ==
    IF c = "unset" THEN init_session_state(api_key, dir)
    ELSE IF ~loaded /\ c = "GeminiChat"
    THEN PresetOnce(c, load_preset_documents(docs, dir))
    ELSE [chat |-> c, docs |-> docs, loaded |-> loaded, raised |-> "no"]

----------------------------------------------------------------------------
(* Inputs of the loader and of the loops *)

\* str sources: "http://h", "https://h", "n.txt", "N.TXT", "d.bin",
\* "ftp://h/x.md", "httpx", "", ".", "x.md/." and "p.md/q"
StrSources ==
    { <<46>>, <<120, 46, 109, 100, 47, 46>>, <<112, 46, 109, 100, 47, 113>>,
      <<104, 116, 116, 112, 58, 47, 47, 104>>,
      <<104, 116, 116, 112, 115, 58, 47, 47, 104>>,
      <<110, 46, 116, 120, 116>>, <<78, 46, 84, 88, 84>>,
      <<100, 46, 98, 105, 110>>,
      <<102, 116, 112, 58, 47, 47, 104, 47, 120, 46, 109, 100>>,
      <<104, 116, 116, 112, 120>>, <<>> }

\* sources that are neither str nor bytes
OtherSources ==
    { [type |-> "NoneType", value |-> <<>>], [type |-> "int", value |-> <<64>>],
      [type |-> "bytearray", value |-> <<130, 160>>] }

\* filename arguments: "", "a.txt", "A.TXT", "b.pdf", "c.csv", "e.md",
\* "d.bin", "a.txt/", "x.txt/." and "p.md/q"
FileNames ==
    { <<97, 46, 116, 120, 116, 47>>, <<120, 46, 116, 120, 116, 47, 46>>,
      <<112, 46, 109, 100, 47, 113>>,
      <<>>, <<97, 46, 116, 120, 116>>, <<65, 46, 84, 88, 84>>,
      <<98, 46, 112, 100, 102>>, <<99, 46, 99, 115, 118>>,
      <<101, 46, 109, 100>>, <<100, 46, 98, 105, 110>> }

Sources ==
    {Bytes(d) : d \in ByteSeqs} \cup {Str(t) : t \in StrSources} \cup OtherSources

LoadInputs == [source : Sources, filename : FileNames, env : Envs]

NoLoad == [source |-> Str(<<>>), filename |-> <<>>, env |-> EnvBad]

File(name, data, env) == [name |-> name, data |-> data, env |-> env]

\* What st.file_uploader may hand over: two files named "a.txt", a "b.pdf"
\* the parser rejects and one it reads, and a "c.csv" pandas rejects.
UploadFiles ==
    { File(<<97, 46, 116, 120, 116>>, <<64>>, EnvGood),
      File(<<97, 46, 116, 120, 116>>, <<130, 160>>, EnvGood),
      File(<<98, 46, 112, 100, 102>>, <<64>>, EnvBad),
      File(<<98, 46, 112, 100, 102>>, <<96>>, EnvGood),
      File(<<99, 46, 99, 115, 118>>, <<64, 96>>, EnvBad) }

\* The outside world env with what stands at the path of an entry
Standing(env, kind, data) ==
    [env EXCEPT !.file = [kind |-> kind, data |-> data]]

\* An entry of docs/: its name and the outside world of its iteration, the
\* data being what open and f.read() give when a regular file stands there
Entry(name, env) == File(name, env.file.data, env)

\* What docs/ may hold: "a.txt", a "b.pdf" the parser rejects, "d.bin",
\* "E.MD", a file whose own name is "[preset] a.txt", a directory "d.md"
\* and a "g.txt" that is gone when it is opened.
PresetFiles ==
    { Entry(<<97, 46, 116, 120, 116>>, EnvGood),
      Entry(<<98, 46, 112, 100, 102>>, Standing(EnvBad, "file", <<64>>)),
      Entry(<<100, 46, 98, 105, 110>>, Standing(EnvGood, "file", <<64>>)),
      Entry(<<69, 46, 77, 68>>, Standing(EnvGood, "file", <<195, 169>>)),
      Entry(PresetPrefix \o <<97, 46, 116, 120, 116>>,
            Standing(EnvGood, "file", <<96>>)),
      Entry(<<100, 46, 109, 100>>, EnvDir),
      Entry(<<103, 46, 116, 120, 116>>, Standing(EnvGood, "none", <<>>)) }

SeqsUpTo(S, n) == UNION {[1..m -> S] : m \in 0..n}

UploadBatches == SeqsUpTo(UploadFiles, MaxBatch)

\* a directory holds each name once
PresetBatches ==
    {b \in SeqsUpTo(PresetFiles, MaxBatch) :
        \A i, j \in 1..Len(b) : i # j => b[i].name # b[j].name}

\* The collections an upload run may start from: empty, or "a.txt" already
\* registered with the content "old".
UploadStarts == { <<>>, << <<<<97, 46, 116, 120, 116>>, <<111, 108, 100>>>> >> }

\* GEMINI_API_KEY of the secrets: "", "your-api-key-here" or "k"
ApiKeys == {<<>>, PlaceholderKey, <<107>>}

\* What stands at DOCS_DIR: nothing ("none"), a directory with its entries
\* ("dir"), a regular file ("file"), a directory that may not be read
\* ("unreadable")
Dir(kind, entries) == [kind |-> kind, entries |-> entries]

DirKinds == {"none", "dir", "file", "unreadable"}

\* docs/ of a script run: missing, holding a directory "d.md", "a.txt" and
\* a "b.pdf" the parser rejects, a regular file, or unreadable
PresetDirs ==
    { Dir("none", <<>>),
      Dir("dir", << Entry(<<100, 46, 109, 100>>, EnvDir),
                    Entry(<<97, 46, 116, 120, 116>>, EnvGood),
                    Entry(<<98, 46, 112, 100, 102>>,
                          Standing(EnvBad, "file", <<64>>)) >>),
      Dir("file", <<>>),
      Dir("unreadable", <<>>) }

\* "http://h/" and 43 times "u": a URL of 52 characters
LongUrl ==
    <<104, 116, 116, 112, 58, 47, 47, 104, 47>> \o [i \in 1..43 |-> 117]

\* What the URL box may hold when its button is pressed, with the outside
\* world of the load: the long URL of a page that answers, "http://h" that
\* does not answer
UrlInputs ==
    { [text |-> LongUrl, env |-> EnvGood],
      [text |-> <<104, 116, 116, 112, 58, 47, 47, 104>>, env |-> EnvBad] }

\* What the parsers make of no data: PdfReader and pandas reject it
NoData(env) ==
    [env EXCEPT !.pdf = [kind |-> "raises", pages |-> <<>>],
                !.csv = [kind |-> "raises", text |-> <<>>]]

\* The file f read again without a seek: read() gives b""
AtEnd(f) == File(f.name, <<>>, NoData(f.env))

\* A file the file_uploader holds: the UploadedFile and whether a read()
\* has left it at its end
Held(f) == [file |-> f, at_end |-> FALSE]

\* file as the upload loop finds the held file h: Streamlit hands a script
\* run the UploadedFile of the run before, which a read() has left at its
\* end, or (fresh) a new one made from the data it keeps
Handed(h, fresh) == IF h.at_end /\ ~fresh THEN AtEnd(h.file) ELSE h.file

\* The held file h after one iteration of the upload loop on docs: read
\* unless its name is registered (app.py lines 90-93)
AfterUpload(docs, h) ==
    IF h.file.name \in KeySet(docs) THEN h ELSE [h EXCEPT !.at_end = TRUE]

\* What the file_uploader of a session may hold: nothing, or a "b.pdf" the
\* parser rejects and then "a.txt"
UploaderContents ==
    { <<>>,
      << File(<<98, 46, 112, 100, 102>>, <<64>>, EnvBad),
         File(<<97, 46, 116, 120, 116>>, <<64>>, EnvGood) >> }

AllKeys ==
    Keys \cup {f.name : f \in UploadFiles}
         \cup {PresetPrefix \o f.name : f \in PresetFiles}
         \cup {short_name(u.text) : u \in UrlInputs}

----------------------------------------------------------------------------
(* Calls of the methods of a GeminiChat *)

Without(keys, k) == SelectSeq(keys, LAMBDA x : x # k)

Inserted(keys, k) ==
    IF \E i \in 1..Len(keys) : keys[i] = k THEN keys ELSE Append(keys, k)

\* A record of one call or one handler: what it was, the collection it
\* found, and what came before it.
Op(op, s, k, before, raised) ==
    [op |-> op, sess |-> s, key |-> k, before |-> before, raised |-> raised,
     prev |-> last.op]

\* A record of one script run of the application: the widget that started
\* it.
Run(widget, s) ==
    [op |-> widget, sess |-> s, key |-> <<>>, before |-> <<>>, raised |-> "no",
     prev |-> "script run"]

NoOp ==
    [op |-> "init", sess |-> 1, key |-> <<>>, before |-> <<>>, raised |-> "no",
     prev |-> "none"]

\* written as the add_document calls that built docs leave it
WrittenOf(docs) ==
    [k \in AllKeys |-> IF k \in KeySet(docs) THEN DictGet(docs, k) ELSE NoContent]

AddDocument(s, k, c) ==
    /\ chat[s] = "GeminiChat"
    /\ documents' = [documents EXCEPT ![s] = add_document(@, k, c)]
    /\ written' = [written EXCEPT ![s][k] = c]
    /\ order' = [order EXCEPT ![s] = Inserted(@, k)]
    /\ lastGen' = [lastGen EXCEPT ![s] = NoGen]
    /\ last' = Op("add_document", s, k, documents[s], "no")
    /\ trip' = [phase |-> "added", sess |-> s, key |-> k,
                fresh |-> k \notin KeySet(documents[s]),
                before |-> get_document_list(documents[s])]
    /\ UNCHANGED <<chat, messages, appVars, uploader, textVars, loadVars, loopVars>>

RemoveDocument(s, k) ==
    /\ chat[s] = "GeminiChat"
    /\ documents' = [documents EXCEPT ![s] = remove_document(@, k).docs]
    /\ written' = IF remove_document(documents[s], k).raised = "no"
                  THEN [written EXCEPT ![s][k] = NoContent]
                  ELSE written
    /\ order' = IF remove_document(documents[s], k).raised = "no"
                THEN [order EXCEPT ![s] = Without(@, k)]
                ELSE order
    /\ lastGen' = [lastGen EXCEPT ![s] = NoGen]
    /\ last' = Op("remove_document", s, k, documents[s],
                  remove_document(documents[s], k).raised)
    /\ trip' = IF trip.phase = "added" /\ trip.sess = s /\ trip.key = k
               THEN [trip EXCEPT !.phase = "removed"]
               ELSE NoTrip
    /\ UNCHANGED <<chat, messages, appVars, uploader, textVars, loadVars, loopVars>>

ClearDocuments(s) ==
    /\ chat[s] = "GeminiChat"
    /\ documents' = [documents EXCEPT ![s] = clear_documents(@)]
    /\ written' = [written EXCEPT ![s] = [k \in DOMAIN @ |-> NoContent]]
    /\ order' = [order EXCEPT ![s] = <<>>]
    /\ lastGen' = [lastGen EXCEPT ![s] = NoGen]
    /\ last' = Op("clear_documents", s, <<>>, documents[s], "no")
    /\ trip' = NoTrip
    /\ UNCHANGED <<chat, messages, appVars, uploader, textVars, loadVars, loopVars>>

\* generate(query), the external model behaving as outcome: the call
\* returns a str, or is left by the BaseException generate lets pass.
Generate(s, q, outcome) ==
    /\ chat[s] = "GeminiChat"
    /\ lastGen' = [lastGen EXCEPT ![s] =
                      generate(documents[s], q, outcome)]
    /\ last' = Op("generate", s, q, documents[s],
                  IF generate(documents[s], q, outcome).raised
                  THEN "BaseException" ELSE "no")
    /\ trip' = NoTrip
    /\ UNCHANGED <<chat, documents, messages, appVars, uploader, written, order,
                   textVars, loadVars, loopVars>>

\* Sessions with no script run under way, start[s] being the GeminiChat
\* (or none) and the collection of session s.
SessionStart(start) ==
    /\ chat = [s \in Sessions |-> start[s].chat]
    /\ documents = [s \in Sessions |-> start[s].docs]
    /\ messages = [s \in Sessions |-> <<>>]
    /\ run = [s \in Sessions |-> Idle]
    /\ preset_loaded = [s \in Sessions |-> start[s].loaded]
    /\ other = NoCall
    /\ uploader = [s \in Sessions |-> <<>>]
    /\ lastGen = [s \in Sessions |-> NoGen]
    /\ written = [s \in Sessions |-> WrittenOf(start[s].docs)]
    /\ order = [s \in Sessions |-> DictKeys(start[s].docs)]
    /\ last = NoOp
    /\ trip = NoTrip

\* A GeminiChat as __init__ leaves it, then given the collection docs.
ChatInit(docs) ==
    SessionStart([s \in Sessions |->
        [chat |-> "GeminiChat", docs |-> docs, loaded |-> FALSE]])

TextIdle == textIn = <<>> /\ textOut = NotRun
LoadIdle == loadIn = NoLoad /\ loadOut = NotRun
LoopIdle ==
    /\ mode = "none" /\ listing = "none" /\ batch = <<>> /\ pos = 1
    /\ regAt = <<>> /\ reports = <<>> /\ halted = "no"

\* One GeminiChat, new, driven through every method by a caller.
Init == ChatInit(<<>>) /\ TextIdle /\ LoadIdle /\ LoopIdle
Next ==
    \/ \E k \in Keys, c \in Contents : AddDocument(1, k, c)
    \/ \E k \in Keys : RemoveDocument(1, k)
    \/ ClearDocuments(1)
    \/ \E q \in Queries, o \in ModelOutcomes : Generate(1, q, o)
Spec == Init /\ [][Next]_vars

----------------------------------------------------------------------------
(* Script runs of a session of the application *)

\* Streamlit runs the script from its first line for every widget event and
\* every st.rerun(), and may end a script run inside any st call (a newer
\* event, a closed page).  A script run is followed from one line that
\* changes st.session_state to the next; the value of a widget is the
\* user's and is drawn at the line that reads it.  st.session_state and the
\* GeminiChat in it belong to one session; genai.configure, which is shared
\* by the sessions of a server, sets the credentials and no part of a
\* prompt.  Sessions of one server therefore reach, side by side, the states
\* each of them reaches alone: one session is followed through all it can
\* do, and a generate call of any session followed before it is kept in
\* other.

At(s, at) == run[s].at = at

\* The collection of session s becomes docs in a script run: the record of
\* the collection follows, and the last generate call is forgotten.
Collection(s, docs) ==
    /\ documents' = [documents EXCEPT ![s] = docs]
    /\ written' = [written EXCEPT ![s] = WrittenOf(docs)]
    /\ order' = [order EXCEPT ![s] = DictKeys(docs)]
    /\ lastGen' = [lastGen EXCEPT ![s] = NoGen]
    /\ last' = Run("script", s)
    /\ trip' = NoTrip

\* A step of a script run that leaves the collection alone.
SameCollection(s) ==
    /\ lastGen' = [lastGen EXCEPT ![s] = NoGen]
    /\ last' = Run("script", s)
    /\ trip' = NoTrip
    /\ UNCHANGED <<documents, written, order>>

\* A widget event (a button, the chat input, the text of a text_input) in a
\* session whose script is not running: a script run begins.
WidgetEvent(s) ==
    /\ At(s, "idle")
    /\ chat[s] # "unset"
    /\ run' = [run EXCEPT ![s] = [at |-> "init", pos |-> 1, query |-> NoQuery]]
    /\ SameCollection(s)
    /\ UNCHANGED <<chat, messages, preset_loaded, other, uploader,
                   textVars, loadVars, loopVars>>

\* The files of the file_uploader change (app.py lines 80-85): a script
\* run begins, and this one and the later ones are handed the new files.
FileUploaderChange(s, files) ==
    /\ At(s, "idle")
    /\ chat[s] = "GeminiChat"
    /\ files # [i \in 1..Len(uploader[s]) |-> uploader[s][i].file]
    /\ uploader' = [uploader EXCEPT ![s] =
                        [i \in 1..Len(files) |-> Held(files[i])]]
    /\ run' = [run EXCEPT ![s] = [at |-> "init", pos |-> 1, query |-> NoQuery]]
    /\ SameCollection(s)
    /\ UNCHANGED <<chat, messages, preset_loaded, other,
                   textVars, loadVars, loopVars>>

\* app.py line 63: init_session_state, the secrets holding api_key and
\* dir standing at DOCS_DIR; init being what it does.  The error of
\* DOCS_DIR.iterdir() leaves init_session_state and main: the script run
\* is over, preset_loaded not set.
ScriptStart(s, init) ==
    /\ At(s, "init")
    /\ chat' = [chat EXCEPT ![s] = init.chat]
    /\ preset_loaded' = [preset_loaded EXCEPT ![s] = init.loaded]
    /\ Collection(s, init.docs)
    /\ run' = [run EXCEPT ![s] = IF init.raised # "no" THEN Idle
                                 ELSE [@ EXCEPT !.at = "sidebar"]]
    /\ UNCHANGED <<messages, other, uploader, textVars, loadVars, loopVars>>

\* app.py lines 70-77: there is no GeminiChat and the text_input holds
\* nothing; the script run returns.
NoApiKey(s) ==
    /\ At(s, "sidebar")
    /\ chat[s] = "None"
    /\ run' = [run EXCEPT ![s] = Idle]
    /\ SameCollection(s)
    /\ UNCHANGED <<chat, messages, preset_loaded, other, uploader,
                   textVars, loadVars, loopVars>>

\* app.py lines 73-76: there is no GeminiChat and the text_input holds
\* api_key_input; a GeminiChat is made, with no document, and st.rerun()
\* starts the script again.
ApiKeyInput(s, api_key_input) ==
    /\ At(s, "sidebar")
    /\ chat[s] = "None"
    /\ api_key_input # <<>>
    /\ chat' = [chat EXCEPT ![s] = "GeminiChat"]
    /\ Collection(s, <<>>)
    /\ run' = [run EXCEPT ![s].at = "init"]
    /\ UNCHANGED <<messages, preset_loaded, other, uploader,
                   textVars, loadVars, loopVars>>

\* app.py lines 89-98: one iteration of the upload loop, over the file the
\* file_uploader holds at run[s].pos.
UploadedFile(s, fresh) ==
    /\ At(s, "sidebar")
    /\ chat[s] = "GeminiChat"
    /\ run[s].pos <= Len(uploader[s])
    /\ Collection(s, upload_file(documents[s],
                         Handed(uploader[s][run[s].pos], fresh)).docs)
    /\ uploader' = [uploader EXCEPT ![s][run[s].pos] =
                        AfterUpload(documents[s], @)]
    /\ run' = [run EXCEPT ![s].pos = @ + 1]
    /\ UNCHANGED <<chat, messages, preset_loaded, other,
                   textVars, loadVars, loopVars>>

\* The upload loop of the script run of session s is over (app.py line 100).
Uploads(s) ==
    /\ At(s, "sidebar")
    /\ chat[s] = "GeminiChat"
    /\ run[s].pos > Len(uploader[s])

\* app.py lines 109-118: the URL button is pressed, the URL box holding
\* u.text; no other button is pressed, no chat input is made, and the
\* script run goes to its end.
UrlButton(s, u) ==
    /\ Uploads(s)
    /\ u.text # <<>>
    /\ Collection(s, url_button(documents[s], u.text, u.env))
    /\ run' = [run EXCEPT ![s] = Idle]
    /\ UNCHANGED <<chat, messages, preset_loaded, other, uploader,
                   textVars, loadVars, loopVars>>

\* app.py lines 123-133: the delete button of the i-th document of the list
\* is pressed; the document is removed and st.rerun() starts the script
\* again.
DeleteButton(s, i) ==
    /\ Uploads(s)
    /\ i \in 1..Len(get_document_list(documents[s]))
    /\ Collection(s, remove_document(documents[s],
                         get_document_list(documents[s])[i]).docs)
    /\ run' = [run EXCEPT ![s].at = "init", ![s].pos = 1]
    /\ UNCHANGED <<chat, messages, preset_loaded, other, uploader,
                   textVars, loadVars, loopVars>>

\* app.py lines 124-138: there are documents and the "clear all" button is
\* pressed; the collection and the transcript are emptied and st.rerun()
\* starts the script again.
ClearAllButton(s) ==
    /\ Uploads(s)
    /\ get_document_list(documents[s]) # <<>>
    /\ messages' = [messages EXCEPT ![s] = <<>>]
    /\ Collection(s, clear_documents(documents[s]))
    /\ run' = [run EXCEPT ![s].at = "init", ![s].pos = 1]
    /\ UNCHANGED <<chat, preset_loaded, other, uploader,
                   textVars, loadVars, loopVars>>

\* the chat inputs the transcript of session s holds
Turns(s) ==
    Cardinality({i \in 1..Len(messages[s]) : messages[s][i].role = "user"})

\* app.py lines 152-154: no button is pressed and the chat input holds q;
\* the user message is appended.
ChatInput(s, q) ==
    /\ Uploads(s)
    /\ Turns(s) < MaxTurns
    /\ messages' = [messages EXCEPT ![s] =
                        Append(@, [role |-> "user", content |-> q])]
    /\ run' = [run EXCEPT ![s].at = "generate", ![s].query = q]
    /\ SameCollection(s)
    /\ UNCHANGED <<chat, preset_loaded, other, uploader,
                   textVars, loadVars, loopVars>>

\* app.py lines 109-152: no button is pressed and the chat input holds
\* nothing; the script run ends.
ScriptEnd(s) ==
    /\ Uploads(s)
    /\ run' = [run EXCEPT ![s] = Idle]
    /\ SameCollection(s)
    /\ UNCHANGED <<chat, messages, preset_loaded, other, uploader,
                   textVars, loadVars, loopVars>>

\* The generate call g of session s as it is remembered
Call(s, g) ==
    [called |-> TRUE, docs |-> documents[s], query |-> g.query,
     prompt |-> g.prompt, turns |-> Turns(s)]

\* app.py line 161: generate(prompt), the external model behaving as
\* outcome, g being what generate does.  A str comes back, or the
\* BaseException generate lets pass ends the script run.
GenerateCall(s, g) ==
    /\ At(s, "generate")
    /\ lastGen' = [lastGen EXCEPT ![s] = g]
    /\ last' = Op("generate", s, run[s].query, documents[s],
                  IF g.raised THEN "BaseException" ELSE "no")
    /\ trip' = NoTrip
    /\ run' = [run EXCEPT ![s] = IF g.raised THEN Idle
                                 ELSE [@ EXCEPT !.at = "answer"]]
    /\ UNCHANGED <<chat, documents, messages, preset_loaded, other, uploader,
                   written, order, textVars, loadVars, loopVars>>

\* app.py lines 162-165: the answer is shown and the assistant message is
\* appended; the script run ends.
ChatAnswer(s) ==
    /\ At(s, "answer")
    /\ messages' = [messages EXCEPT ![s] =
           Append(@, [role |-> "assistant", content |-> lastGen[s].answer])]
    /\ run' = [run EXCEPT ![s] = Idle]
    /\ SameCollection(s)
    /\ UNCHANGED <<chat, preset_loaded, other, uploader,
                   textVars, loadVars, loopVars>>

\* Streamlit ends the script run inside the st call it has reached: after
\* st.rerun() and before the script starts again, in the sidebar, at the
\* st.chat_message or st.spinner before generate (app.py lines 155-160), at
\* st.markdown(response) (line 162).
ScriptStop(s) ==
    /\ ~At(s, "idle")
    /\ run' = [run EXCEPT ![s] = Idle]
    /\ SameCollection(s)
    /\ UNCHANGED <<chat, messages, preset_loaded, other, uploader,
                   textVars, loadVars, loopVars>>

\* A session with nothing in st.session_state, its first script run about
\* to begin.
NewState(s) ==
    /\ chat' = [chat EXCEPT ![s] = "unset"]
    /\ messages' = [messages EXCEPT ![s] = <<>>]
    /\ preset_loaded' = [preset_loaded EXCEPT ![s] = FALSE]
    /\ uploader' = [uploader EXCEPT ![s] = <<>>]
    /\ run' = [run EXCEPT ![s] = [at |-> "init", pos |-> 1, query |-> NoQuery]]
    /\ Collection(s, <<>>)

\* The session is followed no further than its generate call, which has
\* reached the model and is remembered; another session of the server is
\* followed from its beginning.
NextSession(s) ==
    /\ lastGen[s].called
    /\ other' = Call(s, lastGen[s])
    /\ NewState(s)
    /\ UNCHANGED <<textVars, loadVars, loopVars>>

\* Another session of the server is followed from its beginning, the call
\* that is remembered being kept.  (With no call remembered, a new session
\* is the initial state.)
NewSession(s) ==
    /\ other.called
    /\ NewState(s)
    /\ UNCHANGED <<other, textVars, loadVars, loopVars>>

\* A new session of the server.
AppInit ==
    /\ chat = [s \in Sessions |-> "unset"]
    /\ documents = [s \in Sessions |-> <<>>]
    /\ messages = [s \in Sessions |-> <<>>]
    /\ run = [s \in Sessions |-> [at |-> "init", pos |-> 1, query |-> NoQuery]]
    /\ preset_loaded = [s \in Sessions |-> FALSE]
    /\ other = NoCall
    /\ uploader = [s \in Sessions |-> <<>>]
    /\ lastGen = [s \in Sessions |-> NoGen]
    /\ written = [s \in Sessions |-> WrittenOf(<<>>)]
    /\ order = [s \in Sessions |-> <<>>]
    /\ last = Run("script", 1)
    /\ trip = NoTrip
    /\ TextIdle /\ LoadIdle /\ LoopIdle

AppNext ==
    \/ WidgetEvent(1)
    \/ \E files \in UploaderContents : FileUploaderChange(1, files)
    \/ \E api_key \in ApiKeys, dir \in PresetDirs :
           ScriptStart(1, init_session_state_of(chat[1], documents[1],
                                                preset_loaded[1], api_key, dir))
    \/ NoApiKey(1)
    \/ \E api_key_input \in ApiKeys : ApiKeyInput(1, api_key_input)
    \/ \E fresh \in BOOLEAN : UploadedFile(1, fresh)
    \/ \E u \in UrlInputs : UrlButton(1, u)
    \/ \E i \in 1..Len(get_document_list(documents[1])) : DeleteButton(1, i)
    \/ ClearAllButton(1)
    \/ \E q \in Queries : ChatInput(1, q)
    \/ ScriptEnd(1)
    \/ \E o \in ModelOutcomes :
           GenerateCall(1, generate(documents[1], run[1].query, o))
    \/ ChatAnswer(1)
    \/ ScriptStop(1)
    \/ NextSession(1)
    \/ NewSession(1)
SpecApp == AppInit /\ [][AppNext]_vars

----------------------------------------------------------------------------
(* Calls of the loader *)

LoadTextCall ==
    /\ textOut = NotRun
    /\ textOut' = _load_text(textIn)
    /\ UNCHANGED <<textIn, chatVars, loadVars, loopVars>>

\* _load_text on every byte sequence of the bound
TextInit == ChatInit(<<>>) /\ LoadIdle /\ LoopIdle
                /\ textIn \in ByteSeqs /\ textOut = NotRun
TextNext == LoadTextCall
SpecText == TextInit /\ [][TextNext]_vars

LoadCall ==
    /\ loadOut = NotRun
    /\ loadOut' = load(loadIn.source, loadIn.filename, loadIn.env)
    /\ UNCHANGED <<loadIn, chatVars, textVars, loopVars>>

\* load on every source, filename and outside world of the bound
LoadInit == ChatInit(<<>>) /\ TextIdle /\ LoopIdle
                /\ loadIn \in LoadInputs /\ loadOut = NotRun
LoadNext == LoadCall
SpecLoad == LoadInit /\ [][LoadNext]_vars

----------------------------------------------------------------------------
(* Runs of the loading loops *)

\* One iteration, r being what the loop body did with batch[pos].
LoopStep(r) ==
    /\ documents' = [documents EXCEPT ![1] = r.docs]
    /\ IF r.added # <<>>
       THEN /\ written' = [written EXCEPT ![1][r.added[1]] = r.added[2]]
            /\ order' = [order EXCEPT ![1] = Inserted(@, r.added[1])]
            /\ lastGen' = [lastGen EXCEPT ![1] = NoGen]
            /\ last' = Op("add_document", 1, r.added[1], documents[1], "no")
            /\ trip' = [phase |-> "added", sess |-> 1, key |-> r.added[1],
                        fresh |-> r.added[1] \notin KeySet(documents[1]),
                        before |-> get_document_list(documents[1])]
       ELSE UNCHANGED <<written, order, lastGen, last, trip>>
    /\ regAt' = Append(regAt, batch[pos].name \in KeySet(documents[1]))
    /\ reports' = reports \o r.report
    /\ halted' = r.escaped
    /\ pos' = IF r.escaped = "no" THEN pos + 1 ELSE pos
    /\ UNCHANGED <<chat, messages, appVars, uploader, mode, listing, batch,
                   textVars, loadVars>>

UploadFile ==
    /\ mode = "upload" /\ halted = "no" /\ pos <= Len(batch)
    /\ LoopStep(upload_file(documents[1], batch[pos]))

\* The script run is stopped inside the st.success or st.error of the file
\* the loop has reached.
UploadStopped ==
    /\ mode = "upload" /\ halted = "no" /\ pos <= Len(batch)
    /\ batch[pos].name \notin KeySet(documents[1])
    /\ LoopStep(upload_file_stopped(documents[1], batch[pos]))

PresetFile ==
    /\ mode = "preset" /\ halted = "no" /\ pos <= Len(batch)
    /\ iterdir(Dir(listing, batch)) = "no"
    /\ LoopStep(preset_file(documents[1], batch[pos]))

\* DOCS_DIR.iterdir() raises (app.py line 29): load_preset_documents is
\* left before any entry.
PresetUnlistable ==
    /\ mode = "preset" /\ halted = "no"
    /\ iterdir(Dir(listing, batch)) # "no"
    /\ halted' = iterdir(Dir(listing, batch))
    /\ UNCHANGED <<chatVars, textVars, loadVars, mode, listing, batch, pos,
                   regAt, reports>>

\* An upload run over any batch, or load_preset_documents over whatever
\* stands at DOCS_DIR: any directory, nothing, a regular file, a directory
\* that may not be read (the collection is new when init_session_state
\* calls it).
LoopInit ==
    /\ TextIdle /\ LoadIdle
    /\ pos = 1 /\ regAt = <<>> /\ reports = <<>> /\ halted = "no"
    /\ \/ mode = "upload" /\ listing = "none" /\ batch \in UploadBatches
          /\ \E docs \in UploadStarts : ChatInit(docs)
       \/ mode = "preset" /\ listing = "dir" /\ batch \in PresetBatches
          /\ ChatInit(<<>>)
       \/ mode = "preset" /\ listing \in DirKinds \ {"dir"} /\ batch = <<>>
          /\ ChatInit(<<>>)
LoopNext == UploadFile \/ UploadStopped \/ PresetFile \/ PresetUnlistable
SpecLoop == LoopInit /\ [][LoopNext]_vars

----------------------------------------------------------------------------
(* Properties of GeminiChat *)

OccursAt(t, p, i) ==
    /\ i >= 1
    /\ i + Len(p) - 1 <= Len(t)
    /\ SubSeq(t, i, i + Len(p) - 1) = p

\* C1: generate on an empty collection returns the fixed guidance string and
\* does not invoke the external model, whatever the query and however the
\* collection became empty.
C1_EmptyCollectionGuidance ==
    \A s \in Sessions :
        (last.op = "generate" /\ last.sess = s /\ last.before = <<>>) =>
            /\ last.raised = "no"
            /\ lastGen[s].answer = Guidance
            /\ ~lastGen[s].called
            /\ lastGen[s].query = last.key

\* A generate on a collection emptied by the remove_document of its last
\* key: the guidance string, though the external model would have raised.
C1_Witness ==
    /\ last.op = "generate" /\ last.sess = 1 /\ last.before = <<>>
    /\ last.prev = "remove_document"
    /\ last.key = <<119, 63>>
    /\ lastGen[1].answer = Guidance

\* C2: generate never raises when the model call fails: a failing
\* generate_content, or a failing read of response.text, gives the answer
\* that describes the error, and every call returns a str.  A failure is an
\* Exception of the call; an interrupt of the call (a BaseException that is
\* no Exception) is none.
C2_ModelFailureIsAnAnswer ==
    \A s \in Sessions :
        (/\ last.op = "generate" /\ last.sess = s
         /\ lastGen[s].outcome.kind # "call_interrupted") =>
            /\ last.raised = "no"
            /\ ~lastGen[s].raised
            /\ lastGen[s].answer \in Seq(Nat)
            /\ lastGen[s].outcome.kind \in {"call_raises", "text_raises"} =>
                   lastGen[s].answer = ErrorPrefix \o lastGen[s].outcome.text

C2_Witness ==
    /\ last.op = "generate" /\ last.sess = 1
    /\ lastGen[1].called
    /\ lastGen[1].outcome.kind = "text_raises"
    /\ last.raised = "no"
    /\ lastGen[1].answer = ErrorPrefix \o <<52, 50, 57>>

\* "=== <key> ===\n" followed by the content
LabelledSection(doc) ==
    <<61, 61, 61, 32>> \o doc[1] \o <<32, 61, 61, 61, 10>> \o doc[2]

RECURSIVE SectionStart(_, _, _)
\* where section i starts when the first starts at p1 and two line feeds
\* stand between neighbours
SectionStart(docs, p1, i) ==
    IF i = 1 THEN p1
    ELSE SectionStart(docs, p1, i - 1) + Len(LabelledSection(docs[i - 1])) + 2

SectionsThenQuery(prompt, docs, query) ==
    \E p1 \in 1..Len(prompt) :
        LET n == Len(docs)
            end == SectionStart(docs, p1, n) + Len(LabelledSection(docs[n]))
        IN  /\ \A i \in 1..n :
                  /\ OccursAt(prompt, LabelledSection(docs[i]),
                              SectionStart(docs, p1, i))
                  /\ i < n =>
                       OccursAt(prompt, <<10, 10>>,
                                SectionStart(docs, p1, i)
                                    + Len(LabelledSection(docs[i])))
            /\ \E pq \in end..Len(prompt) : OccursAt(prompt, query, pq)

\* the registered documents of session s, in insertion order, each with
\* the content last written for it
Registered(s) ==
    [i \in 1..Len(order[s]) |-> <<order[s][i], written[s][order[s][i]]>>]

\* C3: the prompt generate passes to the model holds, for every registered
\* document in insertion order, a section with the document's key followed
\* by its full content, the sections a blank line apart, and the literal
\* query after the last section.
C3_PromptHoldsDocumentsThenQuery ==
    \A s \in Sessions :
        lastGen[s].called =>
            /\ order[s] # <<>>
            /\ SectionsThenQuery(lastGen[s].prompt, Registered(s),
                                 lastGen[s].query)

\* Three documents whose insertion order is not the order of their names.
C3_Witness ==
    /\ last.op = "generate" /\ lastGen[1].called
    /\ get_document_list(documents[1]) = << <<99>>, <<97>>, <<98, 46, 109, 100>> >>
    /\ documents[1][2][2] = <<121, 10, 122>>

\* C4 as claimed: add_document(key, content) then remove_document(key) gives
\* back the get_document_list() snapshot taken before the add, also when the
\* key was registered before the add.
C4_RoundTripAlways ==
    trip.phase = "removed" =>
        get_document_list(documents[trip.sess]) = trip.before

\* C4 amended: the round trip gives back the snapshot when the key was not
\* registered before the add; when it was, the key is gone from the snapshot
\* and the other keys keep their order.
C4_RoundTripOfFreshKey ==
    trip.phase = "removed" =>
        /\ trip.fresh =>
               get_document_list(documents[trip.sess]) = trip.before
        /\ ~trip.fresh =>
               get_document_list(documents[trip.sess])
                   = Without(trip.before, trip.key)

C4_Witness ==
    /\ trip.phase = "removed" /\ trip.fresh
    /\ Len(trip.before) = 2
    /\ get_document_list(documents[1]) = trip.before

\* C5: remove_document of a key that is not in the collection does not raise
\* and leaves every key, its content and the key order as they were.
C5_RemoveAbsentKeyChangesNothing ==
    (last.op = "remove_document" /\ last.key \notin KeySet(last.before)) =>
        /\ last.raised = "no"
        /\ documents[last.sess] = last.before

C5_Witness ==
    /\ last.op = "remove_document"
    /\ last.key \notin KeySet(last.before)
    /\ Len(last.before) = 2
    /\ documents[1] = last.before

Occurrences(keys, k) == Cardinality({i \in 1..Len(keys) : keys[i] = k})

\* C6: keys are unique and the last write wins: get_document_list() holds
\* each registered key exactly once and no other key, and the content of a
\* key is that of its latest add_document since it was removed or cleared.
C6_UniqueKeysLastWriteWins ==
    \A s \in Sessions : \A k \in DOMAIN written[s] :
        IF written[s][k] = NoContent
        THEN Occurrences(get_document_list(documents[s]), k) = 0
        ELSE /\ Occurrences(get_document_list(documents[s]), k) = 1
             /\ DictGet(documents[s], k) = written[s][k]

\* An add_document that overwrote the content of a registered key.
C6_Witness ==
    /\ last.op = "add_document"
    /\ last.key \in KeySet(last.before)
    /\ Len(last.before) = 2
    /\ DictGet(last.before, last.key) # DictGet(documents[1], last.key)

----------------------------------------------------------------------------
(* Properties of DocumentLoader and of the loops *)

UnsupportedSourceType == "ValueError: Unsupported source type"

\* C7: load fails with the unsupported-source-type error whenever source is
\* neither an http(s) URL string nor bytes; a str that is no URL is refused
\* with that error.  load does otherwise: it takes such a str for the path
\* of a local file, opens it and loads what it holds.
C7_NonUrlStringRefused ==
    (/\ loadOut # NotRun
     /\ ~IsUrl(loadIn.source)
     /\ loadIn.source.type # "bytes")
        => loadOut.raised = UnsupportedSourceType

\* C9: _load_text returns the first strict decode among utf-8, cp932 and
\* shift_jis, in that order, and the utf-8 decode that drops invalid bytes
\* when all three fail; it raises for no byte sequence, and bytes that are
\* invalid utf-8 but valid cp932 or shift_jis give the legacy text.
C9_DecodingFallback ==
    textOut # NotRun =>
        LET u == Decode(textIn, "utf-8", "strict")
            c == Decode(textIn, "cp932", "strict")
            j == Decode(textIn, "shift_jis", "strict")
        IN  /\ textOut.raised = "no"
            /\ u.ok => textOut.text = u.text
            /\ (~u.ok /\ c.ok) => textOut.text = c.text
            /\ (~u.ok /\ ~c.ok /\ j.ok) => textOut.text = j.text
            /\ (~u.ok /\ ~c.ok /\ ~j.ok) =>
                   textOut.text = Decode(textIn, "utf-8", "ignore").text
            /\ textIn = <<195, 169>> => textOut.text = <<233>>
            /\ textIn = <<130, 160>> => textOut.text = <<12354>>
            /\ textIn = <<129, 96>> => textOut.text = <<65374>>
            /\ textIn = <<130, 64>> => textOut.text = <<64>>

\* 0x81 0x60 is invalid utf-8 and valid in both legacy encodings, which
\* disagree on it: the text is that of cp932.
C9_Witness ==
    /\ textIn = <<129, 96>>
    /\ ~Decode(textIn, "utf-8", "strict").ok
    /\ Decode(textIn, "shift_jis", "strict").text = <<12316>>
    /\ textOut = Returned(<<65374>>)

KeyFor(f) == IF mode = "preset" THEN PresetPrefix \o f.name ELSE f.name

\* What reading and loading the file f comes to: load on the bytes of an
\* uploaded file; for an entry of docs/, open and f.read() and then load
PresetLoadOf(f, opened) ==
    IF opened.raised # "no" THEN opened
    ELSE load(Bytes(opened.text), f.name, f.env)

LoadOf(f) ==
    IF mode = "preset" THEN PresetLoadOf(f, open_rb(DocsPath(f.name), f.env))
    ELSE load(Bytes(f.data), f.name, f.env)

\* C8: a failed document does not block the others: no exception of a load
\* (or, in docs/, of the open before it) leaves the loop, the loop goes on
\* to every file unless Streamlit stops the script run, each file reached
\* whose load succeeds and whose name was not registered then is
\* registered, and an upload that fails is reported under its own name.
C8_FailedDocumentBlocksNoOther ==
    mode \in {"upload", "preset"} =>
        /\ halted # "load error"
        /\ halted = "no" => Len(regAt) = pos - 1
        /\ \A i \in 1..Len(regAt) :
              /\ (LoadOf(batch[i]).raised = "no" /\ ~regAt[i]) =>
                     KeyFor(batch[i]) \in KeySet(documents[1])
              /\ (/\ mode = "upload" /\ i < pos
                  /\ LoadOf(batch[i]).raised # "no" /\ ~regAt[i]) =>
                     \E n \in 1..Len(reports) :
                         reports[n] = [kind |-> "error", name |-> batch[i].name,
                                       error |-> LoadOf(batch[i]).raised]

\* A finished upload of three files: the first failed, the last loaded.
C8_Witness ==
    /\ mode = "upload" /\ Len(batch) = 3 /\ pos = 4 /\ halted = "no"
    /\ LoadOf(batch[1]).raised = "PdfReadError" /\ ~regAt[1]
    /\ LoadOf(batch[3]).raised = "no" /\ ~regAt[3]
    /\ batch[3].name \in KeySet(documents[1])
    /\ batch[1].name \notin KeySet(documents[1])

====
